---- MODULE Spec2Model ----
(***************************************************************************)
(* A model of the retrieval-augmented generation pipeline:                 *)
(*   src/src/llm_manager.py   LLMManager and its two providers             *)
(*   src/src/rag_pipeline.py  RAGPipeline (process_documents,              *)
(*                            generate_response, chat)                     *)
(*   src/src/api.py           the /chat and /switch_provider endpoints     *)
(* The vector store (src/vector_store.py) is not among the source files;   *)
(* its three operations are modelled from the specification's section 4.2. *)
(*                                                                         *)
(* Seven specifications: Spec, the calls of the API one at a time;         *)
(* SpecIngest, ingestion and retrieval over documents that share an id;    *)
(* SpecSplit, the splitter on every short text under every configuration;  *)
(* SpecStartup, the construction of LLMManager step by step; SpecHang, a   *)
(* provider whose client does not return, under fairness of the request's  *)
(* steps; SpecSwap and SpecBatch, calls on the registry and on the vector  *)
(* store from concurrent threads.                                          *)
(*                                                                         *)
(* A Python str is a sequence of characters; a fixed phrase of the code    *)
(* (an f-string's literal part, a canned message) is one character of the  *)
(* alphabet, so that concatenation and emptiness are what they are in the  *)
(* code.  None is the string "None".                                       *)
(***************************************************************************)
EXTENDS Integers, Sequences, FiniteSets, TLC

VARIABLES
    llms,             \* LLMManager.llms: the names of the registered providers
    active_provider,  \* LLMManager.active_provider
    index,            \* the vector store: chunk id -> stored text
    call,             \* the top-level call: operation and arguments
    api,              \* the endpoint's frame: status and body sent
    chat,             \* RAGPipeline.chat's frame: position and return value
    req,              \* RAGPipeline.generate_response's frame: the request
    obs,              \* the calls the top-level call made into the vector
                      \* store and the providers
    set_ret,          \* set_active_provider's result and the provider active before
    gen_ret,          \* what a direct LLMManager.generate_response call returned
    ingest_ret,       \* what process_documents returned and logged, the
                      \* store before it and whether the embedding worked
    text_splitter,    \* RAGPipeline.text_splitter: its chunk size and overlap
    threads           \* the calls in progress in concurrent threads: each
                      \* one's operation, argument, position and locals

vars == <<llms, active_provider, index, call, api,
          chat, req, obs, set_ret, gen_ret, ingest_ret, text_splitter,
          threads>>

registry == <<llms, active_provider>>

----------------------------------------------------------------------------
(* Bounds of the model.                                                    *)

\* the longest turn sequence a chat call is given
MaxTurns == 2
\* the most documents one process_documents call is given
MaxDocs == 2
\* the longest text the splitter is given, when every text is tried
MaxLen == 5
\* the largest chunk size the splitter is configured with, when every
\* configuration is tried
MaxSize == 3
\* the calls that run at the same time, when calls run in threads
MaxThreads == 3

----------------------------------------------------------------------------
(* Values.                                                                 *)

NONE == "None"

\* Python truthiness of an Optional[str]: None and "" are falsy
Falsy(s) == s = NONE \/ s = ""

\* the two providers LLMManager knows, in the order _initialize_llms tries them
ProviderNames == <<"openai", "huggingface">>
Providers == {ProviderNames[i] : i \in 1..Len(ProviderNames)}

\* the provider arguments a caller passes: none, empty, registered or not
ProviderArgs == {NONE, ""} \cup Providers \cup {"nonexistent"}

\* the queries and turn contents of the model: "" and two one-word strings
Queries == {<< >>, <<"a">>, <<"b">>}
Roles == {"system", "user", "assistant"}
Turns == [role : Roles, content : {<< >>, <<"a">>}]
TurnSeqs == UNION {[1..n -> Turns] : n \in 0..MaxTurns}

\* str(e) of the exceptions a provider's client raises: it may be empty
ExcTexts == {<< >>, <<"timeout">>}
\* what llm.invoke does: return a completion or raise
InvokeOutcomes == {[ok |-> TRUE, text |-> <<"completion">>]}
                  \cup {[ok |-> FALSE, text |-> e] : e \in ExcTexts}

----------------------------------------------------------------------------
(* src/src/config.py: CHUNK_SIZE, CHUNK_OVERLAP and TOP_K_RETRIEVAL are     *)
(* read from the environment (defaults 1000, 200, 5).  The model runs with *)
(* small values, so that texts of a few characters split into several      *)
(* chunks and a search cuts its result.  The splitter reads its two from   *)
(* text_splitter, which RAGPipeline() sets from them.                      *)

CHUNK_SIZE == 4
CHUNK_OVERLAP == 1
TOP_K_RETRIEVAL == 2

----------------------------------------------------------------------------
(* src/src/llm_manager.py                                                  *)

\* a variant of OpenAILLM.generate that returns str(e) alone
OpenAILLM_generate_bare(msgs, o) == o.text

\* OpenAILLM.generate: the client's exception is caught and turned into text
OpenAILLM_generate(msgs, o) ==
    IF o.ok THEN o.text ELSE <<"Error: ">> \o o.text

\* HuggingFaceLLM.generate: the same shape around the local pipeline
HuggingFaceLLM_generate(msgs, o) ==
    IF o.ok THEN o.text ELSE <<"Error: ">> \o o.text

\* the generate method of the object registered under a name
LLM_generate(name, msgs, o) ==
    IF name = "openai" THEN OpenAILLM_generate(msgs, o)
    ELSE HuggingFaceLLM_generate(msgs, o)

\* a variant of _initialize_llms that names "openai" the active provider
\* before any provider is constructed
initialize_llms_preset(cfg, raises) ==
    LET first == IF cfg.OPENAI_API_KEY /\ "openai" \notin raises
                 THEN {"openai"} ELSE {}
        stopped == cfg.OPENAI_API_KEY /\ "openai" \in raises
        second == IF ~stopped /\ cfg.HUGGINGFACE_API_KEY
                     /\ "huggingface" \notin raises
                  THEN {"huggingface"} ELSE {}
    IN  [llms |-> first \cup second, active |-> "openai",
         raised |-> stopped \/ (cfg.HUGGINGFACE_API_KEY
                                /\ "huggingface" \in raises)]

\* LLMManager._initialize_llms: one try block around both constructors, so a
\* constructor that raises ends the whole initialisation
initialize_llms(cfg, raises) ==
    LET none == [llms |-> {}, active |-> NONE, raised |-> FALSE]
        first == IF ~cfg.OPENAI_API_KEY THEN none
                 ELSE IF "openai" \in raises
                      THEN [none EXCEPT !.raised = TRUE]
                      ELSE [llms |-> {"openai"}, active |-> "openai",
                            raised |-> FALSE]
    IN  IF first.raised \/ ~cfg.HUGGINGFACE_API_KEY THEN first
        ELSE IF "huggingface" \in raises
             THEN [first EXCEPT !.raised = TRUE]
             ELSE [llms |-> first.llms \cup {"huggingface"},
                   active |-> IF Falsy(first.active) THEN "huggingface"
                              ELSE first.active,
                   raised |-> FALSE]

\* a variant of get_llm that falls back to the active provider when the named
\* one is not registered
get_llm_fallback(p) ==
    IF ~Falsy(p) /\ p \in llms THEN p
    ELSE IF active_provider \in llms THEN active_provider ELSE NONE

\* LLMManager.get_llm: the named provider, else the active one; "None" when
\* the dictionary has no such key
get_llm(p) ==
    LET name == IF Falsy(p) THEN active_provider ELSE p
    IN  IF name \in llms THEN name ELSE NONE

\* a variant of set_active_provider that assigns before it checks
set_active_provider_unchecked(p) == [active |-> p, result |-> p \in llms]

\* LLMManager.set_active_provider: the new active provider and the result
set_active_provider(p) ==
    IF p \in llms THEN [active |-> p, result |-> TRUE]
    ELSE [active |-> active_provider, result |-> FALSE]

NoProviderMsg == <<"Error: No LLM provider available">>

\* a variant of LLMManager.generate_response without the "if not llm" return:
\* None.generate raises, and the pipeline's except clause reports it
LLMManager_generate_response_unguarded(msgs, p, o) ==
    IF get_llm(p) = NONE
    THEN [text |-> <<"Error generating response: ",
                     "'NoneType' object has no attribute 'generate'">>,
          resolved |-> NONE, invoked |-> {}]
    ELSE [text |-> LLM_generate(get_llm(p), msgs, o), resolved |-> get_llm(p),
          invoked |-> {get_llm(p)}]

\* LLMManager.generate_response: the text returned, the provider resolved and
\* the providers whose generate was called
LLMManager_generate_response(msgs, p, o) ==
    LET llm == get_llm(p)
    IN  IF llm = NONE
        THEN [text |-> NoProviderMsg, resolved |-> NONE, invoked |-> {}]
        ELSE [text |-> LLM_generate(llm, msgs, o), resolved |-> llm,
              invoked |-> {llm}]

----------------------------------------------------------------------------
(* The text splitter src/src/rag_pipeline.py configures in __init__:       *)
(* RecursiveCharacterTextSplitter(chunk_size, chunk_overlap, len,          *)
(* ["\n\n", "\n", " ", ""]), with the library's defaults (separators are   *)
(* kept at the start of the piece that follows them, chunks are stripped). *)

\* the splitter's _chunk_size and _chunk_overlap
chunk_size == text_splitter.chunk_size
chunk_overlap == text_splitter.chunk_overlap

Whitespace == {" ", "\n"}
Separators == << <<"\n", "\n">>, <<"\n">>, <<" ">>, << >> >>

\* str.strip()
RECURSIVE LStrip(_)
LStrip(t) == IF t # << >> /\ Head(t) \in Whitespace THEN LStrip(Tail(t)) ELSE t
RECURSIVE RStrip(_)
RStrip(t) ==
    IF t # << >> /\ t[Len(t)] \in Whitespace
    THEN RStrip(SubSeq(t, 1, Len(t) - 1)) ELSE t
\* a variant of strip that leaves the end of the text alone
Strip_left(t) == LStrip(t)

Strip(t) == RStrip(LStrip(t))

\* "".join(pieces)
RECURSIVE Concat(_)
Concat(pieces) ==
    IF pieces = << >> THEN << >> ELSE Head(pieces) \o Concat(Tail(pieces))

\* the first position at which sep occurs in t, 0 if none
FindSep(t, sep) ==
    LET hits == {i \in 1..(Len(t) - Len(sep) + 1) :
                    SubSeq(t, i, i + Len(sep) - 1) = sep}
    IN  IF hits = {} THEN 0 ELSE CHOOSE i \in hits : \A j \in hits : i <= j

\* re.split(sep, t) for a non-empty separator: the pieces between occurrences
RECURSIVE Pieces(_, _)
Pieces(t, sep) ==
    LET k == FindSep(t, sep)
    IN  IF k = 0 THEN <<t>>
        ELSE <<SubSeq(t, 1, k - 1)>>
             \o Pieces(SubSeq(t, k + Len(sep), Len(t)), sep)

\* _split_text_with_regex with keep_separator: every piece but the first gets
\* the separator in front, the empty string splits into characters, and empty
\* pieces are dropped
split_text_with_regex(t, sep) ==
    LET ps == Pieces(t, sep)
        kept == IF sep = << >> THEN [i \in 1..Len(t) |-> <<t[i]>>]
                ELSE [i \in 1..Len(ps) |-> IF i = 1 THEN ps[1] ELSE sep \o ps[i]]
    IN  SelectSeq(kept, LAMBDA x : x # << >>)

\* the inner while loop of _merge_splits: drop pieces from the front until the
\* rest fits the overlap and leaves room for the next piece of length n
RECURSIVE PopFront(_, _, _)
PopFront(cur, total, n) ==
    IF total > chunk_overlap \/ (total + n > chunk_size /\ total > 0)
    THEN PopFront(Tail(cur), total - Len(Head(cur)), n)
    ELSE <<cur, total>>

\* _join_docs: the joined and stripped text, appended unless it is empty
JoinInto(docs, cur) ==
    LET doc == Strip(Concat(cur))
    IN  IF doc = << >> THEN docs ELSE Append(docs, doc)

\* _merge_splits with the empty separator keep_separator leaves it
RECURSIVE MergeLoop(_, _, _, _, _)
MergeLoop(splits, i, docs, cur, total) ==
    IF i > Len(splits) THEN JoinInto(docs, cur)
    ELSE LET n == Len(splits[i])
         IN  IF total + n > chunk_size /\ Len(cur) > 0
             THEN LET rest == PopFront(cur, total, n)
                  IN  MergeLoop(splits, i + 1, JoinInto(docs, cur),
                                Append(rest[1], splits[i]), rest[2] + n)
             ELSE MergeLoop(splits, i + 1, docs, Append(cur, splits[i]),
                            total + n)
\* a variant of _merge_splits that joins its pieces without the size test
merge_splits_unbounded(splits) == JoinInto(<< >>, splits)

merge_splits(splits) == MergeLoop(splits, 1, << >>, << >>, 0)

\* the separator _split_text picks: the first one that occurs in the text (the
\* empty one always does), and the finer ones left after it
PickSeparator(t, seps) ==
    LET ok == {i \in 1..Len(seps) : seps[i] = << >> \/ FindSep(t, seps[i]) > 0}
        i == CHOOSE k \in ok : \A j \in ok : k <= j
    IN  IF ok = {} THEN [sep |-> seps[Len(seps)], rest |-> << >>]
        ELSE [sep |-> seps[i],
              rest |-> IF seps[i] = << >> THEN << >>
                       ELSE SubSeq(seps, i + 1, Len(seps))]

\* RecursiveCharacterTextSplitter._split_text
RECURSIVE split_text_rec(_, _)
RECURSIVE SplitLoop(_, _, _, _, _)
SplitLoop(splits, i, good, final, rest) ==
    LET flushed == IF good = << >> THEN final ELSE final \o merge_splits(good)
    IN  IF i > Len(splits) THEN flushed
        ELSE IF Len(splits[i]) < chunk_size
             THEN SplitLoop(splits, i + 1, Append(good, splits[i]), final, rest)
             ELSE SplitLoop(splits, i + 1, << >>,
                            flushed \o (IF rest = << >> THEN <<splits[i]>>
                                        ELSE split_text_rec(splits[i], rest)),
                            rest)
split_text_rec(t, seps) ==
    LET pick == PickSeparator(t, seps)
    IN  SplitLoop(split_text_with_regex(t, pick.sep), 1, << >>, << >>, pick.rest)

\* a variant of split_text that returns a text that fits as it is
split_text_whole(t) ==
    IF Len(t) <= chunk_size THEN <<t>> ELSE split_text_rec(t, Separators)

\* self.text_splitter.split_text(text)
split_text(t) == split_text_rec(t, Separators)

----------------------------------------------------------------------------
(* The documents of the model.  A document handed to process_documents is  *)
(* a dict; has_text says whether it has the "text" key.                    *)

DocIds == <<"d1", "d2", "d3">>
Documents ==
    { [id |-> "d1", has_text |-> TRUE, text |-> <<"a", "a">>],
      [id |-> "d2", has_text |-> TRUE, text |-> <<"b", " ", "a", "b", "b">>],
      [id |-> "d3", has_text |-> TRUE, text |-> << >>],
      [id |-> "d3", has_text |-> FALSE, text |-> << >>] }
DocSeqs == UNION {[1..n -> Documents] : n \in 0..MaxDocs}

\* a variant of the chunk id that numbers on from the chunks already stored
ChunkId_counted(id, i) == <<id, "_chunk_", i + Cardinality(DOMAIN index)>>

\* f"{doc['id']}_chunk_{i}"
ChunkId(id, i) == <<id, "_chunk_", i>>

----------------------------------------------------------------------------
(* The vector store, from the specification (4.2 EmbeddingIndex): upsert   *)
(* by chunk id, all of a call or none of it; search by descending score,   *)
(* ties by ascending chunk id, at most topK, empty on an empty index, a    *)
(* ValidationError on an empty query.                                      *)

Alphabet == <<"a", "b", " ", "\n">>
Count(c, t) == Cardinality({i \in 1..Len(t) : t[i] = c})
\* the embedding of a text is its vector of character counts, the score of a
\* stored text is the inner product with the query's
RECURSIVE Dot(_, _, _)
Dot(q, t, i) ==
    IF i > Len(Alphabet) THEN 0
    ELSE Count(Alphabet[i], q) * Count(Alphabet[i], t) + Dot(q, t, i + 1)
Score(q, t) == Dot(q, t, 1)

Rank(id) == CHOOSE i \in 1..Len(DocIds) : DocIds[i] = id
\* ascending order of chunk ids
IdLess(x, y) == Rank(x[1]) < Rank(y[1]) \/ (x[1] = y[1] /\ x[3] < y[3])
Before(x, y) == x.score > y.score \/ (x.score = y.score /\ IdLess(x.id, y.id))

RECURSIVE Ranked(_, _)
Ranked(S, k) ==
    IF S = {} \/ k = 0 THEN << >>
    ELSE LET b == CHOOSE x \in S : \A y \in S \ {x} : Before(x, y)
         IN  <<b>> \o Ranked(S \ {b}, k - 1)

\* vector_store.search(query)
search(idx, q) ==
    IF DOMAIN idx = {} THEN [raised |-> FALSE, error |-> << >>, results |-> << >>]
    ELSE IF q = << >>
         THEN [raised |-> TRUE, error |-> <<"ValidationError">>, results |-> << >>]
         ELSE [raised |-> FALSE, error |-> << >>,
               results |-> Ranked({[id |-> k, text |-> idx[k],
                                    score |-> Score(q, idx[k])] : k \in DOMAIN idx},
                                  TOP_K_RETRIEVAL)]

RECURSIVE Upsert(_, _)
Upsert(idx, chunks) ==
    IF chunks = << >> THEN idx
    ELSE LET c == Head(chunks)
         IN  Upsert([k \in DOMAIN idx \cup {c.id} |->
                        IF k = c.id THEN c.text ELSE idx[k]], Tail(chunks))

\* vector_store.add_documents(chunks): embeds every chunk, then stores them
\* all; an embedding failure stores none and reports failure
add_documents(idx, chunks, embed_ok) ==
    IF chunks # << >> /\ ~embed_ok THEN [success |-> FALSE, index |-> idx]
    ELSE [success |-> TRUE, index |-> Upsert(idx, chunks)]

\* vector_store.get_collection_info()["document_count"]
document_count(idx) == Cardinality(DOMAIN idx)

----------------------------------------------------------------------------
(* src/src/rag_pipeline.py                                                 *)

\* the chunk documents process_documents builds for one document
chunk_docs(doc) ==
    LET chunks == split_text(doc.text)
    IN  [i \in 1..Len(chunks) |->
            [id |-> ChunkId(doc.id, i - 1), text |-> chunks[i],
             chunk_index |-> i - 1, total_chunks |-> Len(chunks),
             source_id |-> doc.id]]

RECURSIVE processed_chunks(_)
processed_chunks(docs) ==
    IF docs = << >> THEN << >>
    ELSE chunk_docs(Head(docs)) \o processed_chunks(Tail(docs))

\* a variant of process_documents that stores each document's chunks inside
\* the loop: the documents before one without a text are already stored when
\* the except clause returns False
process_documents_stored_in_loop(idx, docs, embed_ok) ==
    IF \E i \in 1..Len(docs) : ~docs[i].has_text
    THEN LET k == CHOOSE i \in 1..Len(docs) :
                     /\ ~docs[i].has_text
                     /\ \A j \in 1..(i - 1) : docs[j].has_text
         IN  [success |-> FALSE,
              index |-> add_documents(idx, processed_chunks(SubSeq(docs, 1, k - 1)),
                                      embed_ok).index,
              documents |-> 0, chunks |-> 0]
    ELSE [success |-> add_documents(idx, processed_chunks(docs), embed_ok).success,
          index |-> add_documents(idx, processed_chunks(docs), embed_ok).index,
          documents |-> IF add_documents(idx, processed_chunks(docs), embed_ok).success
                        THEN Len(docs) ELSE 0,
          chunks |-> IF add_documents(idx, processed_chunks(docs), embed_ok).success
                     THEN Len(processed_chunks(docs)) ELSE 0]

\* a variant of process_documents that treats an empty input as a failure
process_documents_nonempty(idx, docs, embed_ok) ==
    IF docs = << >> \/ \E i \in 1..Len(docs) : ~docs[i].has_text
    THEN [success |-> FALSE, index |-> idx, documents |-> 0, chunks |-> 0]
    ELSE [success |-> add_documents(idx, processed_chunks(docs), embed_ok).success,
          index |-> add_documents(idx, processed_chunks(docs), embed_ok).index,
          documents |-> Len(docs), chunks |-> Len(processed_chunks(docs))]

\* a variant of process_documents that stores each document's chunks as it
\* goes: an embedding failure at the last document leaves the earlier ones
process_documents_per_document(idx, docs, embed_ok) ==
    IF \E i \in 1..Len(docs) : ~docs[i].has_text
    THEN [success |-> FALSE, index |-> idx, documents |-> 0, chunks |-> 0]
    ELSE IF docs = << >>
         THEN [success |-> TRUE, index |-> idx, documents |-> 0, chunks |-> 0]
         ELSE LET n == Len(docs)
                  stored == Upsert(idx, processed_chunks(SubSeq(docs, 1, n - 1)))
                  added == add_documents(stored, chunk_docs(docs[n]), embed_ok)
              IN  [success |-> added.success, index |-> added.index,
                   documents |-> IF added.success THEN n ELSE 0,
                   chunks |-> IF added.success
                              THEN Len(processed_chunks(docs)) ELSE 0]

\* RAGPipeline.process_documents: doc["text"] of a document without the key
\* raises, and the except clause returns False before anything is stored;
\* the counts are those of the log line written on success
process_documents(idx, docs, embed_ok) ==
    IF \E i \in 1..Len(docs) : ~docs[i].has_text
    THEN [success |-> FALSE, index |-> idx, documents |-> 0, chunks |-> 0]
    ELSE LET chunks == processed_chunks(docs)
             added == add_documents(idx, chunks, embed_ok)
         IN  [success |-> added.success, index |-> added.index,
              documents |-> IF added.success THEN Len(docs) ELSE 0,
              chunks |-> IF added.success THEN Len(chunks) ELSE 0]

InsufficientMsg ==
    <<"I don't have enough information to answer that question. Please try rephrasing or ask about a different topic.">>

Digits == <<"1", "2", "3", "4", "5", "6", "7", "8", "9">>

\* a variant of the context text that gives every chunk the label 1
RECURSIVE context_text_unranked(_, _)
context_text_unranked(ctx, i) ==
    IF i > Len(ctx) THEN << >>
    ELSE (IF i > 1 THEN <<"\n", "\n">> ELSE << >>)
         \o <<"Context ", Digits[1], ": ">> \o ctx[i].text
         \o context_text_unranked(ctx, i + 1)

\* "\n\n".join(f"Context {i+1}: {doc['text']}" for i, doc in enumerate(context))
RECURSIVE context_text(_, _)
context_text(ctx, i) ==
    IF i > Len(ctx) THEN << >>
    ELSE (IF i > 1 THEN <<"\n", "\n">> ELSE << >>)
         \o <<"Context ", Digits[i], ": ">> \o ctx[i].text
         \o context_text(ctx, i + 1)

system_message(ctx) ==
    <<"You are a helpful AI assistant. Use the following context to answer the user's question. If the context doesn't contain enough information to answer the question, say so. Context: ">>
    \o context_text(ctx, 1)
    \o <<" Answer the user's question based on the context provided.">>

\* the messages generate_response prepares for the LLM
llm_messages(q, ctx) ==
    << [role |-> "system", content |-> system_message(ctx)],
       [role |-> "user", content |-> q] >>

\* the except clause of generate_response
generate_error(e) == <<"Error generating response: ">> \o e

\* RAGPipeline.generate_response(query, provider=p) as a function of the
\* store, the registry and what the provider's client does
RAGPipeline_generate_response(q, p, o) ==
    LET found == search(index, q)
    IN  IF found.raised THEN generate_error(found.error)
        ELSE IF found.results = << >> THEN InsufficientMsg
        ELSE LLMManager_generate_response(llm_messages(q, found.results), p, o).text

\* a variant of chat without the check of the last turn's role
chat_entry_any_role(turns, p) ==
    IF turns = << >>
    THEN [pass |-> FALSE, text |-> <<"No messages provided">>,
          query |-> << >>, provider |-> NONE]
    ELSE [pass |-> TRUE, text |-> << >>,
          query |-> turns[Len(turns)].content, provider |-> p]

\* a variant of chat that takes the query from the first turn
chat_entry_first_turn(turns, p) ==
    IF turns = << >>
    THEN [pass |-> FALSE, text |-> <<"No messages provided">>,
          query |-> << >>, provider |-> NONE]
    ELSE IF turns[Len(turns)].role # "user"
         THEN [pass |-> FALSE, text |-> <<"Last message must be from user">>,
               query |-> << >>, provider |-> NONE]
         ELSE [pass |-> TRUE, text |-> << >>,
               query |-> turns[1].content, provider |-> p]

\* the checks of RAGPipeline.chat and the arguments it delegates with
chat_entry(turns, p) ==
    IF turns = << >>
    THEN [pass |-> FALSE, text |-> <<"No messages provided">>,
          query |-> << >>, provider |-> NONE]
    ELSE IF turns[Len(turns)].role # "user"
         THEN [pass |-> FALSE, text |-> <<"Last message must be from user">>,
               query |-> << >>, provider |-> NONE]
         ELSE [pass |-> TRUE, text |-> << >>,
               query |-> turns[Len(turns)].content, provider |-> p]

\* the states of one generate_response request
Terminal == {"Completed", "Degraded", "Failed"}

\* a value a Python function returned: every function of the pipeline returns
\* a str, whatever happened
NoRet == [kind |-> "none", text |-> << >>]
Str(t) == [kind |-> "str", text |-> t]

\* a variant of generate_response without the "if not context" return
after_search_no_check(found) ==
    IF found.raised
    THEN [pc |-> "Failed", ret |-> Str(generate_error(found.error)),
          context |-> << >>]
    ELSE [pc |-> "Assembling", ret |-> NoRet, context |-> found.results]

\* a variant of generate_response that takes the retrieved chunks last first
after_search_reversed(found) ==
    IF found.raised
    THEN [pc |-> "Failed", ret |-> Str(generate_error(found.error)),
          context |-> << >>]
    ELSE IF found.results = << >>
         THEN [pc |-> "Degraded", ret |-> Str(InsufficientMsg), context |-> << >>]
         ELSE [pc |-> "Assembling", ret |-> NoRet,
               context |-> [i \in 1..Len(found.results) |->
                               found.results[Len(found.results) + 1 - i]]]

\* generate_response after vector_store.search returned or raised: the except
\* clause, the "if not context" return, or on to the prompt
after_search(found) ==
    IF found.raised
    THEN [pc |-> "Failed", ret |-> Str(generate_error(found.error)),
          context |-> << >>]
    ELSE IF found.results = << >>
         THEN [pc |-> "Degraded", ret |-> Str(InsufficientMsg), context |-> << >>]
         ELSE [pc |-> "Assembling", ret |-> NoRet, context |-> found.results]

\* the /chat endpoint before it calls the pipeline: the HTTPException(400) it
\* raises inside its try block is caught by its own "except Exception" and
\* raised again with status 500
api_chat_entry(turns) == IF turns = << >> THEN 500 ELSE 0

\* POST /switch_provider/{provider}: the HTTPException(400) of the else
\* branch is raised inside the try block, "except Exception" catches it and
\* raises HTTPException(500, str(e))
switch_provider(p) ==
    LET success == set_active_provider(p)
    IN  IF success.result
        THEN [status |-> 200, active |-> success.active,
              body |-> <<"Switched to ", p, " provider">>]
        ELSE [status |-> 500, active |-> success.active,
              body |-> <<"str(", "Provider ", p, " not available", ")">>]

----------------------------------------------------------------------------
(* The state machine.                                                      *)

NoCall == [op |-> "none", turns |-> << >>, query |-> << >>, provider |-> NONE,
           docs |-> << >>]
NoOutcome == [ok |-> TRUE, text |-> << >>]
Api0 == [status |-> 0, response |-> << >>, provider |-> NONE]
Chat0 == [pc |-> "None", ret |-> NoRet]
Req0 == [pc |-> "NoRequest", query |-> << >>, provider |-> NONE,
         context |-> << >>, messages |-> << >>, outcome |-> NoOutcome,
         ret |-> NoRet]
Obs0 == [nsearch |-> 0, ngenerate |-> 0, invoked |-> {}, resolved |-> NONE]
Set0 == [called |-> FALSE, name |-> NONE, before |-> NONE, result |-> FALSE]
Ingest0 == [called |-> FALSE, success |-> FALSE, documents |-> 0, chunks |-> 0,
            before |-> << >>, embed_ok |-> TRUE]

pc == req.pc

\* config.OPENAI_API_KEY and config.HUGGINGFACE_API_KEY: set or not
Configs == [OPENAI_API_KEY : BOOLEAN, HUGGINGFACE_API_KEY : BOOLEAN]

\* LLMManager() at import: the registry after _initialize_llms, for every
\* configuration and every set of constructors that raise; the store is empty

Init ==
    /\ \E cfg \in Configs, raises \in SUBSET Providers :
          /\ llms = initialize_llms(cfg, raises).llms
          /\ active_provider = initialize_llms(cfg, raises).active
    /\ index = << >>
    /\ call = NoCall
    /\ api = Api0
    /\ chat = Chat0
    /\ req = Req0
    /\ obs = Obs0
    /\ set_ret = Set0
    /\ gen_ret = NoRet
    /\ ingest_ret = Ingest0
    /\ text_splitter = [chunk_size |-> CHUNK_SIZE,
                        chunk_overlap |-> CHUNK_OVERLAP]
    /\ threads = << >>

\* the top-level call has run to its return statement
Done ==
    \/ call.op \in {"none", "set_active", "generate", "ingest",
                   "switch_provider"}
    \/ call.op = "answer" /\ pc \in Terminal
    \/ call.op = "chat" /\ chat.pc \in {"Rejected", "Returned"}
    \/ call.op = "api_chat" /\ api.status # 0

\* a new top-level call; requests are handled one at a time
Begin(c) ==
    /\ call.op = "none"
    /\ call' = c

\* the top-level call returns to its caller and its frames are discarded
Finish ==
    /\ call.op # "none"
    /\ Done
    /\ call' = NoCall
    /\ api' = Api0 /\ chat' = Chat0 /\ req' = Req0 /\ obs' = Obs0
    /\ set_ret' = Set0 /\ gen_ret' = NoRet /\ ingest_ret' = Ingest0
    /\ UNCHANGED <<threads, text_splitter, registry, index>>

\* rag_pipeline.generate_response(q, provider=p)
CallAnswer(q, p) ==
    /\ Begin([NoCall EXCEPT !.op = "answer", !.query = q, !.provider = p])
    /\ req' = [Req0 EXCEPT !.pc = "Received", !.query = q, !.provider = p]
    /\ api' = Api0 /\ chat' = Chat0 /\ obs' = Obs0
    /\ set_ret' = Set0 /\ gen_ret' = NoRet /\ ingest_ret' = Ingest0
    /\ UNCHANGED <<threads, text_splitter, registry, index>>

\* generate_response: context is None, so vector_store.search is called
StartRetrieval ==
    /\ pc = "Received"
    /\ req' = [req EXCEPT !.pc = "Retrieving"]
    /\ obs' = [obs EXCEPT !.nsearch = @ + 1]
    /\ UNCHANGED <<threads, text_splitter, registry, index, call, api, chat,
                   set_ret, gen_ret, ingest_ret>>

\* generate_response: the search returns or raises
Retrieve ==
    /\ pc = "Retrieving"
    /\ LET next == after_search(search(index, req.query))
       IN  req' = [req EXCEPT !.pc = next.pc, !.ret = next.ret,
                              !.context = next.context]
    /\ UNCHANGED <<threads, text_splitter, registry, index, call, api, chat,
                   obs, set_ret, gen_ret, ingest_ret>>

\* generate_response: the system message and the two turns
Assemble ==
    /\ pc = "Assembling"
    /\ req' = [req EXCEPT !.pc = "Generating",
                          !.messages = llm_messages(req.query, req.context)]
    /\ UNCHANGED <<threads, text_splitter, registry, index, call, api, chat,
                   obs, set_ret, gen_ret, ingest_ret>>

\* a variant of the generation step that searches again when the provider's
\* client raised
Generate_retry ==
    /\ pc = "Generating"
    /\ \E o \in IF get_llm(req.provider) = NONE THEN {NoOutcome}
                 ELSE InvokeOutcomes :
          LET g == LLMManager_generate_response(req.messages, req.provider, o)
          IN  /\ req' = [req EXCEPT !.pc = IF o.ok THEN "Completed"
                                            ELSE "Retrieving",
                                    !.outcome = o,
                                    !.ret = IF o.ok THEN Str(g.text) ELSE NoRet]
              /\ obs' = [obs EXCEPT !.ngenerate = @ + 1,
                                    !.invoked = @ \cup g.invoked,
                                    !.resolved = g.resolved]
    /\ UNCHANGED <<threads, text_splitter, registry, index, call, api, chat,
                   set_ret, gen_ret, ingest_ret>>

\* a variant of the generation step that makes the provider it resolved the
\* active one
Generate_sticky ==
    /\ pc = "Generating"
    /\ \E o \in IF get_llm(req.provider) = NONE THEN {NoOutcome}
                 ELSE InvokeOutcomes :
          LET g == LLMManager_generate_response(req.messages, req.provider, o)
          IN  /\ req' = [req EXCEPT !.pc = "Completed", !.outcome = o,
                                    !.ret = Str(g.text)]
              /\ obs' = [obs EXCEPT !.ngenerate = @ + 1,
                                    !.invoked = @ \cup g.invoked,
                                    !.resolved = g.resolved]
              /\ active_provider' = IF g.resolved = NONE THEN active_provider
                                    ELSE g.resolved
    /\ UNCHANGED <<threads, text_splitter, llms, index, call, api, chat,
                   set_ret, gen_ret, ingest_ret>>

\* generate_response: llm_manager.generate_response and the return
Generate ==
    /\ pc = "Generating"
    /\ \E o \in IF get_llm(req.provider) = NONE THEN {NoOutcome}
                 ELSE InvokeOutcomes :
          LET g == LLMManager_generate_response(req.messages, req.provider, o)
          IN  /\ req' = [req EXCEPT !.pc = "Completed", !.outcome = o,
                                    !.ret = Str(g.text)]
              /\ obs' = [obs EXCEPT !.ngenerate = @ + 1,
                                    !.invoked = @ \cup g.invoked,
                                    !.resolved = g.resolved]
    /\ UNCHANGED <<threads, text_splitter, registry, index, call, api, chat,
                   set_ret, gen_ret, ingest_ret>>

\* rag_pipeline.chat(turns, provider=p)
CallChat(turns, p) ==
    /\ Begin([NoCall EXCEPT !.op = "chat", !.turns = turns, !.provider = p])
    /\ chat' = [Chat0 EXCEPT !.pc = "Validating"]
    /\ api' = Api0 /\ req' = Req0 /\ obs' = Obs0
    /\ set_ret' = Set0 /\ gen_ret' = NoRet /\ ingest_ret' = Ingest0
    /\ UNCHANGED <<threads, text_splitter, registry, index>>

\* chat: the two checks, then the call of generate_response
ChatValidate ==
    /\ chat.pc = "Validating"
    /\ LET e == chat_entry(call.turns, call.provider)
       IN  IF e.pass
           THEN /\ chat' = [chat EXCEPT !.pc = "Delegated"]
                /\ req' = [Req0 EXCEPT !.pc = "Received", !.query = e.query,
                                       !.provider = e.provider]
           ELSE /\ chat' = [pc |-> "Rejected", ret |-> Str(e.text)]
                /\ UNCHANGED req
    /\ UNCHANGED <<threads, text_splitter, registry, index, call, api, obs,
                   set_ret, gen_ret, ingest_ret>>

\* chat: generate_response has returned, chat returns its response
ChatReturn ==
    /\ chat.pc = "Delegated"
    /\ pc \in Terminal
    /\ chat' = [pc |-> "Returned", ret |-> req.ret]
    /\ UNCHANGED <<threads, text_splitter, registry, index, call, api, req,
                   obs, set_ret, gen_ret, ingest_ret>>

\* POST /chat
CallApiChat(turns, p) ==
    /\ Begin([NoCall EXCEPT !.op = "api_chat", !.turns = turns, !.provider = p])
    /\ api' = [Api0 EXCEPT !.status = api_chat_entry(turns)]
    /\ chat' = [Chat0 EXCEPT !.pc = IF api_chat_entry(turns) = 0
                                    THEN "Validating" ELSE "None"]
    /\ req' = Req0 /\ obs' = Obs0
    /\ set_ret' = Set0 /\ gen_ret' = NoRet /\ ingest_ret' = Ingest0
    /\ UNCHANGED <<threads, text_splitter, registry, index>>

\* POST /chat: the ChatResponse around what the pipeline returned
ApiRespond ==
    /\ call.op = "api_chat"
    /\ api.status = 0
    /\ chat.pc \in {"Rejected", "Returned"}
    /\ api' = [status |-> 200, response |-> chat.ret.text,
               provider |-> IF Falsy(active_provider) THEN "unknown"
                            ELSE active_provider]
    /\ UNCHANGED <<threads, text_splitter, registry, index, call, chat, req,
                   obs, set_ret, gen_ret, ingest_ret>>

\* llm_manager.set_active_provider(p)
CallSetActive(p) ==
    /\ Begin([NoCall EXCEPT !.op = "set_active", !.provider = p])
    /\ active_provider' = set_active_provider(p).active
    /\ set_ret' = [called |-> TRUE, name |-> p, before |-> active_provider,
                   result |-> set_active_provider(p).result]
    /\ api' = Api0 /\ chat' = Chat0 /\ req' = Req0 /\ obs' = Obs0
    /\ gen_ret' = NoRet /\ ingest_ret' = Ingest0
    /\ UNCHANGED <<threads, text_splitter, llms, index>>

\* the provider names a request path can carry
PathProviders == Providers \cup {"nonexistent"}

\* POST /switch_provider/{provider}
CallSwitchProvider(p) ==
    /\ Begin([NoCall EXCEPT !.op = "switch_provider", !.provider = p])
    /\ active_provider' = switch_provider(p).active
    /\ set_ret' = [called |-> TRUE, name |-> p, before |-> active_provider,
                   result |-> set_active_provider(p).result]
    /\ api' = [status |-> switch_provider(p).status,
               response |-> switch_provider(p).body, provider |-> p]
    /\ chat' = Chat0 /\ req' = Req0 /\ obs' = Obs0
    /\ gen_ret' = NoRet /\ ingest_ret' = Ingest0
    /\ UNCHANGED <<threads, text_splitter, llms, index>>

\* llm_manager.generate_response(messages, provider=p)
CallGenerate(p) ==
    /\ Begin([NoCall EXCEPT !.op = "generate", !.provider = p])
    /\ \E o \in IF get_llm(p) = NONE THEN {NoOutcome} ELSE InvokeOutcomes :
          LET msgs == <<[role |-> "user", content |-> <<"a">>]>>
              g == LLMManager_generate_response(msgs, p, o)
          IN  /\ gen_ret' = Str(g.text)
              /\ obs' = [Obs0 EXCEPT !.ngenerate = 1, !.invoked = g.invoked,
                                     !.resolved = g.resolved]
    /\ api' = Api0 /\ chat' = Chat0 /\ req' = Req0
    /\ set_ret' = Set0 /\ ingest_ret' = Ingest0
    /\ UNCHANGED <<threads, text_splitter, registry, index>>

\* rag_pipeline.process_documents(docs)
CallIngest(docs, embed_ok) ==
    /\ Begin([NoCall EXCEPT !.op = "ingest", !.docs = docs])
    /\ LET r == process_documents(index, docs, embed_ok)
       IN  /\ index' = r.index
           /\ ingest_ret' = [called |-> TRUE, success |-> r.success,
                             documents |-> r.documents, chunks |-> r.chunks,
                             before |-> index, embed_ok |-> embed_ok]
    /\ api' = Api0 /\ chat' = Chat0 /\ req' = Req0 /\ obs' = Obs0
    /\ set_ret' = Set0 /\ gen_ret' = NoRet
    /\ UNCHANGED <<threads, text_splitter, registry>>

Next ==
    \/ \E q \in Queries, p \in ProviderArgs : CallAnswer(q, p)
    \/ StartRetrieval
    \/ Retrieve
    \/ Assemble
    \/ Generate
    \/ \E t \in TurnSeqs, p \in ProviderArgs : CallChat(t, p)
    \/ ChatValidate
    \/ ChatReturn
    \/ \E t \in TurnSeqs, p \in ProviderArgs : CallApiChat(t, p)
    \/ ApiRespond
    \/ \E p \in ProviderArgs : CallSetActive(p)
    \/ \E p \in PathProviders : CallSwitchProvider(p)
    \/ \E p \in ProviderArgs : CallGenerate(p)
    \/ \E d \in DocSeqs, e \in BOOLEAN : CallIngest(d, e)
    \/ Finish

Spec == Init /\ [][Next]_vars

----------------------------------------------------------------------------
(* Ingestion and retrieval.  The same calls over documents that share an   *)
(* id: a text of two chunks and a shorter one of one chunk under the id    *)
(* d2, as when a file is uploaded again after an edit, or when two files   *)
(* of one upload have the same stem (document_processor.py takes the id    *)
(* from file_path.stem).                                                   *)

IngestDocuments ==
    { [id |-> "d1", has_text |-> TRUE, text |-> <<"a", "a">>],
      [id |-> "d2", has_text |-> TRUE, text |-> <<"b", " ", "a", "b", "b">>],
      [id |-> "d2", has_text |-> TRUE, text |-> <<"a", "b">>],
      [id |-> "d3", has_text |-> TRUE, text |-> << >>] }
IngestDocSeqs == UNION {[1..n -> IngestDocuments] : n \in 0..MaxDocs}

\* rag_pipeline.process_documents called once more with the documents of the
\* call that has just returned
Reingest(embed_ok) ==
    /\ call.op = "ingest"
    /\ LET r == process_documents(index, call.docs, embed_ok)
       IN  /\ index' = r.index
           /\ ingest_ret' = [called |-> TRUE, success |-> r.success,
                             documents |-> r.documents, chunks |-> r.chunks,
                             before |-> index, embed_ok |-> embed_ok]
    /\ UNCHANGED <<threads, text_splitter, registry, call, api, chat, req,
                   obs, set_ret, gen_ret>>

IngestNext ==
    \/ \E d \in IngestDocSeqs, e \in BOOLEAN : CallIngest(d, e)
    \/ \E e \in BOOLEAN : Reingest(e)
    \/ \E q \in Queries : CallAnswer(q, NONE)
    \/ StartRetrieval
    \/ Retrieve
    \/ Assemble
    \/ Generate
    \/ Finish

SpecIngest == Init /\ [][IngestNext]_vars

----------------------------------------------------------------------------
(* A provider whose client does not return.  generate_response calls the   *)
(* provider's generate, which calls llm.invoke (OpenAILLM.generate) or the *)
(* local pipeline (HuggingFaceLLM.generate); the code passes no timeout to *)
(* either and wraps neither call in one.  The interpreter keeps running a  *)
(* call that is in progress, so the steps of a request are weakly fair;    *)
(* new calls arrive or not.                                                *)

\* llm.invoke is called and does not return: the frame stays in the call
InvokeHangs ==
    /\ pc = "Generating"
    /\ get_llm(req.provider) # NONE
    /\ req' = [req EXCEPT !.pc = "Invoking"]
    /\ obs' = [obs EXCEPT !.ngenerate = @ + 1,
                          !.invoked = @ \cup {get_llm(req.provider)},
                          !.resolved = get_llm(req.provider)]
    /\ UNCHANGED <<threads, text_splitter, registry, index, call, api, chat,
                   set_ret, gen_ret, ingest_ret>>

\* the statements of a request in progress
RequestStep ==
    \/ StartRetrieval
    \/ Retrieve
    \/ Assemble
    \/ Generate
    \/ InvokeHangs

HangNext ==
    \/ \E d \in DocSeqs : CallIngest(d, TRUE)
    \/ \E q \in Queries, p \in ProviderArgs : CallAnswer(q, p)
    \/ RequestStep
    \/ Finish

SpecHang == Init /\ [][HangNext]_vars /\ WF_vars(RequestStep)

----------------------------------------------------------------------------
(* Properties.                                                             *)

\* the provider a call names, else the active one
Target(p) == IF Falsy(p) THEN active_provider ELSE p

\* a turn sequence chat does not accept
Invalid(turns) == turns = << >> \/ turns[Len(turns)].role # "user"

ValidationMsgs == { <<"No messages provided">>,
                    <<"Last message must be from user">> }

\* C1: set_active_provider with a name that is not registered returns False
\* and leaves the active provider as it was before the call, whatever
\* set_active_provider calls came before.
C1_SetActiveUnknown ==
    (set_ret.called /\ set_ret.name \notin llms)
        => (set_ret.result = FALSE /\ active_provider = set_ret.before)

\* an unregistered name refused after an earlier call had switched the
\* active provider away from the start-up default
C1_Witness ==
    /\ set_ret.called
    /\ set_ret.name = "nonexistent"
    /\ set_ret.before = "huggingface"
    /\ llms = Providers

\* C2: a request whose retrieval yielded no chunk returns the fixed
\* insufficient-information message, and no provider's generate was invoked
\* for it.
C2_EmptyRetrievalDegrades ==
    LET found == search(index, req.query)
    IN  (pc \in Terminal /\ ~found.raised /\ found.results = << >>)
            => /\ pc = "Degraded"
               /\ req.ret = Str(InsufficientMsg)
               /\ obs.ngenerate = 0
               /\ obs.invoked = {}

\* a request on the empty index, with a provider registered that could have
\* been asked
C2_Witness ==
    /\ pc = "Degraded"
    /\ DOMAIN index = {}
    /\ obs.nsearch = 1
    /\ llms # {}

\* the steps of a request the state machine of the specification allows; the
\* last one is the end of the call, which discards the request
C3_Step(a, b) ==
    \/ a = b
    \/ a = "NoRequest" /\ b = "Received"
    \/ a = "Received" /\ b = "Retrieving"
    \/ a = "Retrieving" /\ b \in {"Assembling", "Degraded"}
    \/ a = "Assembling" /\ b = "Generating"
    \/ a = "Generating" /\ b = "Completed"
    \/ a \in {"Completed", "Degraded"} /\ b = "NoRequest" /\ call' = NoCall

\* C3 as stated: every request goes Received, Retrieving, Assembling,
\* Generating, Completed in that order, Degraded is the only other terminal
\* state and is entered from Retrieving only, and a terminal state is not left.
C3_Original == [][C3_Step(pc, pc')]_vars

\* C3, amended: as stated, with a third terminal state, the return of the
\* except clause, entered from Retrieving only (when the search raises).
C3_RequestOrder ==
    [][\/ C3_Step(pc, pc')
       \/ pc = "Retrieving" /\ pc' = "Failed"
       \/ pc = "Failed" /\ pc' = "NoRequest" /\ call' = NoCall]_vars

\* a request that chat delegated and whose search raised
C3_Witness ==
    /\ pc = "Failed"
    /\ call.op = "chat"
    /\ obs.nsearch = 1

\* C4: LLMManager.generate_response, called for a provider that is not
\* registered (named, or the active one when none is named), returns the
\* no-provider message as a value and calls no provider's generate.
C4_NoProviderAvailable ==
    /\ (call.op = "generate" /\ Target(call.provider) \notin llms)
           => /\ gen_ret = Str(NoProviderMsg)
              /\ obs.invoked = {}
    /\ (pc = "Completed" /\ Target(req.provider) \notin llms)
           => /\ req.ret = Str(NoProviderMsg)
              /\ obs.invoked = {}

\* a provider is registered and active, and the call names another one
C4_Witness ==
    /\ call.op = "generate"
    /\ call.provider = "nonexistent"
    /\ active_provider = "openai"
    /\ obs.ngenerate = 1

\* C5 as stated: with no provider registered a request returns the
\* no-provider message, whatever the query and the index.
C5_Original ==
    (pc \in Terminal /\ llms = {}) => req.ret = Str(NoProviderMsg)

\* C5, amended: with no provider registered a request returns a str; it is
\* the no-provider message exactly when retrieval returned a chunk, the
\* insufficient-information message when it returned none, and the text of
\* the except clause when the search raised.
C5_NoProviderAnswer ==
    LET found == search(index, req.query)
    IN  (pc \in Terminal /\ llms = {})
            => /\ req.ret.kind = "str"
               /\ req.ret = Str(NoProviderMsg)
                     <=> (~found.raised /\ found.results # << >>)
               /\ (~found.raised /\ found.results = << >>)
                     => req.ret = Str(InsufficientMsg)
               /\ found.raised => req.ret = Str(generate_error(found.error))

\* no provider registered, chunks retrieved
C5_Witness ==
    /\ pc = "Completed"
    /\ llms = {}
    /\ req.context # << >>

C7_ChatValidation ==
    (call.op \in {"chat", "api_chat"} /\ Invalid(call.turns))
        => /\ obs.nsearch = 0
           /\ obs.ngenerate = 0
           /\ obs.invoked = {}
           /\ pc = "NoRequest"
           /\ chat.pc \in {"None", "Validating", "Rejected"}
           /\ chat.pc = "Rejected" => chat.ret.text \in ValidationMsgs
           /\ (call.op = "chat" /\ Done) => chat.pc = "Rejected"

\* a last turn of role assistant refused while chunks are stored and a
\* provider is registered
C7_Witness ==
    /\ call.op = "chat"
    /\ chat.pc = "Rejected"
    /\ call.turns # << >>
    /\ DOMAIN index # {}
    /\ llms # {}

\* C8 as stated: a validation failure of chat or answer reaches the caller
\* as a structured failure, never as an ordinary response string: chat does
\* not return a str, the endpoint does not answer 200, and a request with an
\* empty query on a non-empty index does not return a str.
C8_Claim ==
    /\ (call.op = "chat" /\ Done /\ Invalid(call.turns))
           => chat.ret.kind # "str"
    /\ (call.op = "api_chat" /\ Done /\ Invalid(call.turns))
           => api.status # 200
    /\ (call.op = "answer" /\ Done /\ search(index, call.query).raised)
           => req.ret.kind # "str"

\* C9: chat called with a turn sequence whose last turn is a user turn
\* returns what generate_response returns for that turn's content and the
\* same provider argument, in the same store and registry and with the
\* provider's client doing the same.
C9_ChatIsAnswer ==
    (call.op = "chat" /\ ~Invalid(call.turns) /\ Done)
        => /\ chat.pc = "Returned"
           /\ chat.ret = Str(RAGPipeline_generate_response(
                               call.turns[Len(call.turns)].content,
                               call.provider, req.outcome))

\* two turns with different contents, chunks retrieved, a provider asked
C9_Witness ==
    /\ call.op = "chat"
    /\ chat.pc = "Returned"
    /\ Len(call.turns) = 2
    /\ call.turns[1].content # call.turns[2].content
    /\ pc = "Completed"
    /\ obs.invoked # {}

\* C10: process_documents called with no document succeeds, counts no
\* document and no chunk, and leaves the store as it was.
C10_EmptyIngest ==
    (ingest_ret.called /\ call.docs = << >>)
        => /\ ingest_ret.success
           /\ ingest_ret.documents = 0
           /\ ingest_ret.chunks = 0
           /\ index = ingest_ret.before

\* an empty ingest into a store that holds chunks
C10_Witness ==
    /\ ingest_ret.called
    /\ call.docs = << >>
    /\ DOMAIN index # {}

----------------------------------------------------------------------------
(* The splitter on every text.  RAGPipeline() is constructed with every    *)
(* valid pair of chunk size and overlap, and one document of every text up *)
(* to MaxLen characters is ingested into the empty store.                  *)

Chars == {"a", "b", " ", "\n"}
Texts == UNION {[1..n -> Chars] : n \in 0..MaxLen}

\* chunk_size > 0 and 0 <= chunk_overlap < chunk_size
SplitterConfigs ==
    {c \in [chunk_size : 1..MaxSize, chunk_overlap : 0..(MaxSize - 1)] :
        c.chunk_overlap < c.chunk_size}

\* no credential is configured, the store is empty
SplitInit ==
    /\ text_splitter \in SplitterConfigs
    /\ threads = << >>
    /\ llms = initialize_llms([OPENAI_API_KEY |-> FALSE,
                               HUGGINGFACE_API_KEY |-> FALSE], {}).llms
    /\ active_provider = NONE
    /\ index = << >>
    /\ call = NoCall
    /\ api = Api0
    /\ chat = Chat0
    /\ req = Req0
    /\ obs = Obs0
    /\ set_ret = Set0
    /\ gen_ret = NoRet
    /\ ingest_ret = Ingest0

\* one document of every text
TextDocuments == {[id |-> "d1", has_text |-> TRUE, text |-> t] : t \in Texts}

\* rag_pipeline.process_documents([doc])
IngestText(doc) == CallIngest(<<doc>>, TRUE)

SplitNext == \E doc \in TextDocuments : IngestText(doc)

SpecSplit == SplitInit /\ [][SplitNext]_vars

----------------------------------------------------------------------------
(* Start-up.  LLMManager() step by step, for every environment: each key   *)
(* unset, empty or set, and every set of constructors that raise.          *)

\* os.getenv of an API key: None, "" or a key
KeyValues == {NONE, "", "key"}
Environments == [OPENAI_API_KEY : KeyValues, HUGGINGFACE_API_KEY : KeyValues,
                 raises : SUBSET Providers]

\* LLMManager.__init__ has set llms = {} and active_provider = None and is
\* about to call _initialize_llms
StartupInit ==
    /\ \E env \in Environments :
          call = [op |-> "LLMManager", pc |-> "openai", env |-> env]
    /\ llms = {}
    /\ active_provider = NONE
    /\ index = << >>
    /\ api = Api0
    /\ chat = Chat0
    /\ req = Req0
    /\ obs = Obs0
    /\ set_ret = Set0
    /\ gen_ret = NoRet
    /\ ingest_ret = Ingest0
    /\ text_splitter = [chunk_size |-> CHUNK_SIZE,
                        chunk_overlap |-> CHUNK_OVERLAP]
    /\ threads = << >>

\* _initialize_llms: the OpenAI block
InitOpenAI ==
    /\ call.pc = "openai"
    /\ IF Falsy(call.env.OPENAI_API_KEY)
       THEN /\ call' = [call EXCEPT !.pc = "huggingface"]
            /\ UNCHANGED registry
       ELSE IF "openai" \in call.env.raises
            THEN /\ call' = [call EXCEPT !.pc = "except"]
                 /\ UNCHANGED registry
            ELSE /\ llms' = llms \cup {"openai"}
                 /\ active_provider' = "openai"
                 /\ call' = [call EXCEPT !.pc = "huggingface"]
    /\ UNCHANGED <<threads, text_splitter, index, api, chat, req, obs,
                   set_ret, gen_ret, ingest_ret>>

\* _initialize_llms: the Hugging Face block
InitHuggingFace ==
    /\ call.pc = "huggingface"
    /\ IF Falsy(call.env.HUGGINGFACE_API_KEY)
       THEN /\ call' = [call EXCEPT !.pc = "check"]
            /\ UNCHANGED registry
       ELSE IF "huggingface" \in call.env.raises
            THEN /\ call' = [call EXCEPT !.pc = "except"]
                 /\ UNCHANGED registry
            ELSE /\ llms' = llms \cup {"huggingface"}
                 /\ active_provider' = IF Falsy(active_provider)
                                        THEN "huggingface" ELSE active_provider
                 /\ call' = [call EXCEPT !.pc = "check"]
    /\ UNCHANGED <<threads, text_splitter, index, api, chat, req, obs,
                   set_ret, gen_ret, ingest_ret>>

\* _initialize_llms: "if not self.llms" logs a warning, and the manager is
\* constructed
InitCheck ==
    /\ call.pc = "check"
    /\ call' = [call EXCEPT !.pc = "done"]
    /\ UNCHANGED <<threads, text_splitter, registry, index, api, chat, req,
                   obs, set_ret, gen_ret, ingest_ret>>

\* _initialize_llms: the except clause logs the error, and the manager is
\* constructed
InitExcept ==
    /\ call.pc = "except"
    /\ call' = [call EXCEPT !.pc = "done"]
    /\ UNCHANGED <<threads, text_splitter, registry, index, api, chat, req,
                   obs, set_ret, gen_ret, ingest_ret>>

StartupNext ==
    \/ InitOpenAI
    \/ InitHuggingFace
    \/ InitCheck
    \/ InitExcept

SpecStartup == StartupInit /\ [][StartupNext]_vars

----------------------------------------------------------------------------
(* Properties of ingestion and retrieval, under SpecIngest.                *)

\* the ids of the documents a process_documents call was given
CallDocIds == {call.docs[i].id : i \in DOMAIN call.docs}

\* the documents of a call without those whose text is empty
NonEmptyDocs(docs) == SelectSeq(docs, LAMBDA d : d.text # << >>)

\* C11 as stated: every chunk process_documents builds has the id
\* "{source_id}_chunk_{chunk_index}" with 0 <= chunk_index < total_chunks,
\* total_chunks is the number of chunks of its source in the call, and the
\* ids of the chunks handed to one add_documents call are pairwise distinct.
C11_Claim ==
    ingest_ret.called =>
        LET chunks == processed_chunks(call.docs)
        IN  /\ \A i \in DOMAIN chunks :
                  /\ chunks[i].id = <<chunks[i].source_id, "_chunk_",
                                      chunks[i].chunk_index>>
                  /\ 0 <= chunks[i].chunk_index
                  /\ chunks[i].chunk_index < chunks[i].total_chunks
                  /\ chunks[i].total_chunks =
                        Cardinality({j \in DOMAIN chunks :
                                        chunks[j].source_id = chunks[i].source_id})
            /\ \A i, j \in DOMAIN chunks : i # j => chunks[i].id # chunks[j].id

\* C12: process_documents called a second time with the same documents,
\* after a first call that succeeded, leaves the set of chunk ids in the
\* store and its document count as the first call left them.
C12_ReingestIdempotent ==
    [][(call.op = "ingest" /\ call' = call /\ ingest_ret.success)
           => /\ DOMAIN index' = DOMAIN index
              /\ document_count(index') = document_count(index)]_vars

\* the two-chunk document ingested again into the store that holds it
C12_Witness ==
    /\ ingest_ret.called
    /\ ingest_ret.success
    /\ Len(call.docs) = 1
    /\ ingest_ret.chunks = 2
    /\ ingest_ret.before = index

\* C13 as stated: after a process_documents call that succeeded, every
\* chunk stored under the id of a document of the call is a chunk of that
\* call, with the text the call gave it; none is left from an earlier text.
C13_Claim ==
    (ingest_ret.called /\ ingest_ret.success) =>
        LET chunks == processed_chunks(call.docs)
        IN  \A k \in DOMAIN index :
                k[1] \in CallDocIds =>
                    \E i \in DOMAIN chunks :
                        chunks[i].id = k /\ chunks[i].text = index[k]

\* C14: a process_documents call whose embedding fails returns False and
\* leaves the store exactly as it was; otherwise it returns True, every
\* chunk id of the call is stored with the text of a chunk of the call, and
\* the entries under other ids are as they were.
C14_AllOrNothing ==
    ingest_ret.called =>
        LET chunks == processed_chunks(call.docs)
            ids == {chunks[i].id : i \in DOMAIN chunks}
            before == ingest_ret.before
            failed == chunks # << >> /\ ~ingest_ret.embed_ok
        IN  /\ failed => (~ingest_ret.success /\ index = before)
            /\ ~failed =>
                  /\ ingest_ret.success
                  /\ DOMAIN index = DOMAIN before \cup ids
                  /\ \A k \in ids : \E i \in DOMAIN chunks :
                         chunks[i].id = k /\ chunks[i].text = index[k]
                  /\ \A k \in DOMAIN before \ ids : index[k] = before[k]

\* the embedding fails in a call of two documents on a store that holds
\* chunks
C14_Witness ==
    /\ ingest_ret.called
    /\ ~ingest_ret.embed_ok
    /\ ~ingest_ret.success
    /\ Len(call.docs) = 2
    /\ call.docs[1].id # call.docs[2].id
    /\ processed_chunks(call.docs) # << >>
    /\ DOMAIN index # {}

C20_EmptyText ==
    ingest_ret.called =>
        LET docs == call.docs
            kept == process_documents(ingest_ret.before, NonEmptyDocs(docs),
                                      ingest_ret.embed_ok)
        IN  /\ \A i \in DOMAIN docs :
                  docs[i].text = << >> => chunk_docs(docs[i]) = << >>
            /\ \A k \in DOMAIN index \ DOMAIN ingest_ret.before :
                  \E i \in DOMAIN docs : docs[i].id = k[1] /\ docs[i].text # << >>
            /\ index = kept.index
            /\ ingest_ret.success = kept.success
            /\ ingest_ret.chunks = kept.chunks

\* an empty document first and a two-chunk document after it, into the empty
\* store
C20_Witness ==
    /\ ingest_ret.called
    /\ ingest_ret.success
    /\ Len(call.docs) = 2
    /\ call.docs[1].text = << >>
    /\ call.docs[2].text # << >>
    /\ ingest_ret.before = << >>
    /\ document_count(index) = 2

----------------------------------------------------------------------------
(* Properties of the splitter, under SpecSplit.                            *)

\* the text of the one document of the call, and the chunks made of it
TextIn == call.docs[1].text
ChunksOut ==
    LET chunks == processed_chunks(call.docs)
    IN  [i \in DOMAIN chunks |-> chunks[i].text]

\* c is t without the whitespace at its two ends, and is not empty
Trimmed(t, c) ==
    \E i, j \in 1..Len(t) :
        /\ i <= j
        /\ c = SubSeq(t, i, j)
        /\ t[i] \notin Whitespace /\ t[j] \notin Whitespace
        /\ \A k \in 1..Len(t) : (k < i \/ k > j) => t[k] \in Whitespace

\* C18: whatever the text, the chunk size and the overlap, no chunk of the
\* document is longer than the chunk size.
C18_ChunkSizeBound ==
    ingest_ret.called =>
        \A i \in DOMAIN ChunksOut : Len(ChunksOut[i]) <= chunk_size

\* a text with a space in it, longer than the chunk size, split into
\* several chunks of which one is as long as the chunk size
C18_Witness ==
    /\ ingest_ret.called
    /\ chunk_size >= 2
    /\ Len(TextIn) > chunk_size
    /\ \E k \in DOMAIN TextIn : TextIn[k] = " "
    /\ Len(ChunksOut) >= 2
    /\ \E i \in DOMAIN ChunksOut : Len(ChunksOut[i]) = chunk_size

----------------------------------------------------------------------------
(* Properties of start-up, under SpecStartup.                              *)

\* the key of a provider in the environment of the start-up
KeyOf(p) == IF p = "openai" THEN call.env.OPENAI_API_KEY
            ELSE call.env.HUGGINGFACE_API_KEY

\* the first registered provider in the order of registration, else None
FirstRegistered ==
    IF llms = {} THEN NONE
    ELSE ProviderNames[CHOOSE i \in 1..Len(ProviderNames) :
                          /\ ProviderNames[i] \in llms
                          /\ \A j \in 1..(i - 1) : ProviderNames[j] \notin llms]

\* C15 as stated: once LLMManager() is constructed, every provider whose
\* key is set and whose own constructor did not raise is registered,
\* whatever happened to the other provider, and the active provider is the
\* first one registered.
C15_Claim ==
    call.pc = "done" =>
        /\ \A p \in Providers :
              (~Falsy(KeyOf(p)) /\ p \notin call.env.raises) => p \in llms
        /\ active_provider = FirstRegistered

----------------------------------------------------------------------------
(* Properties of the prompt, under Spec.                                   *)

\* part occurs in t from position k on
OccursAt(t, part, k) ==
    k + Len(part) - 1 <= Len(t) /\ SubSeq(t, k, k + Len(part) - 1) = part

\* the texts of ctx occur in t in their order, the i-th with the label of
\* rank i in front
RankedIn(t, ctx) ==
    \E at \in [1..Len(ctx) -> 1..Len(t)] :
        /\ \A i \in 1..Len(ctx) :
              OccursAt(t, <<"Context ", Digits[i], ": ">> \o ctx[i].text, at[i])
        /\ \A i, j \in 1..Len(ctx) : i < j => at[i] < at[j]

\* C16: a request that retrieved chunks calls llm_manager.generate_response
\* exactly once, with two turns: a system turn that holds the chunk texts in
\* the order the search returned them, the i-th labelled i, and a user turn
\* whose content is the query.
C16_PromptFromContext ==
    /\ pc = "Generating" => obs.ngenerate = 0
    /\ pc = "Completed" => obs.ngenerate = 1
    /\ pc \in {"Generating", "Completed"} =>
          /\ req.context # << >>
          /\ req.context = search(index, req.query).results
          /\ Len(req.messages) = 2
          /\ req.messages[1].role = "system"
          /\ RankedIn(req.messages[1].content, req.context)
          /\ req.messages[2] = [role |-> "user", content |-> req.query]

\* two chunks of different texts retrieved, a provider asked
C16_Witness ==
    /\ pc = "Completed"
    /\ Len(req.context) = 2
    /\ req.context[1].text # req.context[2].text
    /\ obs.ngenerate = 1
    /\ obs.invoked # {}

----------------------------------------------------------------------------
(* The registry's invariant and the frame of the calls that name a         *)
(* provider.                                                               *)

\* C24: in every reachable state of the registry the active provider is
\* None or the name of a registered provider, and it is None exactly when no
\* provider is registered.
C24_ActiveRegistered ==
    /\ active_provider = NONE \/ active_provider \in llms
    /\ active_provider = NONE <=> llms = {}

\* a switch to the other registered provider has just returned
C24_Witness ==
    /\ set_ret.called
    /\ set_ret.result
    /\ set_ret.before \in llms
    /\ active_provider \in llms
    /\ active_provider # set_ret.before

\* C25: a step of answer or of chat called with an explicit provider name,
\* registered or not, leaves the active provider and the set of registered
\* providers as they are; the active provider changes only in a step of
\* set_active_provider, called directly or by the /switch_provider endpoint.
C25_ExplicitProviderFrame ==
    [][ /\ (call'.op \in {"answer", "chat"} /\ ~Falsy(call'.provider))
              => UNCHANGED registry
        /\ active_provider' # active_provider
              => call'.op \in {"set_active", "switch_provider"}
        /\ llms' = llms ]_vars

\* chat has returned the answer of the provider it was given by name, which
\* is not the active one
C25_Witness ==
    /\ call.op = "chat"
    /\ chat.pc = "Returned"
    /\ call.provider \in llms
    /\ call.provider # active_provider
    /\ obs.invoked = {call.provider}

\* C26: when a document of an ingest call has no text, so that chunking it
\* fails, the call reports failure and the index holds what it held before
\* the call: no chunk of any document of the call is written, those of the
\* documents before the failing one included.
C26_ChunkingFailure ==
    (ingest_ret.called /\ \E i \in 1..Len(call.docs) : ~call.docs[i].has_text)
        => /\ ~ingest_ret.success
           /\ index = ingest_ret.before
           /\ \A i \in 1..Len(call.docs) :
                 \A c \in DOMAIN index : c[1] = call.docs[i].id
                     => c \in DOMAIN ingest_ret.before

\* the second document of a call has no text and the first one, which has
\* chunks, is not in the index
C26_Witness ==
    /\ ingest_ret.called
    /\ Len(call.docs) = 2
    /\ call.docs[1].has_text
    /\ chunk_docs(call.docs[1]) # << >>
    /\ ~call.docs[2].has_text
    /\ ingest_ret.embed_ok
    /\ ChunkId(call.docs[1].id, 0) \notin DOMAIN index

\* C27 as stated: the /switch_provider endpoint called with a provider that
\* is not registered answers with status 400 and leaves the active provider
\* unchanged.
C27_Claim ==
    (call.op = "switch_provider" /\ call.provider \notin llms)
        => /\ api.status = 400
           /\ active_provider = set_ret.before

----------------------------------------------------------------------------
(* Termination of a request.                                               *)

\* C23 as stated: a request that has reached the provider call eventually
\* terminates in Completed or Degraded, also when the provider's generate
\* never returns.
C23_Claim == (pc = "Generating") ~> (pc \in {"Completed", "Degraded"})

----------------------------------------------------------------------------
(* Calls on the registry from concurrent threads.  Each thread runs one    *)
(* call of LLMManager.generate_response or LLMManager.set_active_provider; *)
(* the interpreter switches threads between statements, and a load or a    *)
(* store of an attribute is one step.  The code takes no lock.             *)

Threads == 1..MaxThreads

Thread0 == [op |-> "none", pc |-> "done", arg |-> NONE, provider |-> NONE,
            llm |-> NONE, seen |-> {}, order |-> 0, result |-> FALSE,
            ret |-> NoRet]

\* the calls a thread can be started with; seen collects the values
\* active_provider has during a generate_response call, from its start on
RegistryCalls ==
    {[Thread0 EXCEPT !.op = "generate", !.pc = "get_llm", !.arg = p,
                     !.seen = {active_provider}] : p \in {NONE, "huggingface"}}
    \cup {[Thread0 EXCEPT !.op = "set_active", !.pc = "check", !.arg = p] :
             p \in PathProviders}

SwapInit ==
    /\ \E cfg \in Configs, raises \in SUBSET Providers :
          /\ llms = initialize_llms(cfg, raises).llms
          /\ active_provider = initialize_llms(cfg, raises).active
    /\ index = << >>
    /\ call = NoCall
    /\ api = Api0
    /\ chat = Chat0
    /\ req = Req0
    /\ obs = Obs0
    /\ set_ret = Set0
    /\ gen_ret = NoRet
    /\ ingest_ret = Ingest0
    /\ text_splitter = [chunk_size |-> CHUNK_SIZE,
                        chunk_overlap |-> CHUNK_OVERLAP]
    /\ threads \in [Threads -> RegistryCalls]

\* get_llm: provider = provider or self.active_provider
GetLlmRead(t) ==
    /\ threads[t].op = "generate"
    /\ threads[t].pc = "get_llm"
    /\ threads' = [threads EXCEPT ![t].pc = "lookup",
                       ![t].provider = IF Falsy(threads[t].arg)
                                       THEN active_provider
                                       ELSE threads[t].arg]
    /\ UNCHANGED <<registry, index, call, api, chat, req, obs, set_ret,
                   gen_ret, ingest_ret, text_splitter>>

\* get_llm: return self.llms.get(provider); generate_response: "if not llm"
GetLlmLookup(t) ==
    /\ threads[t].op = "generate"
    /\ threads[t].pc = "lookup"
    /\ threads' =
          IF threads[t].provider \in llms
          THEN [threads EXCEPT ![t].pc = "invoke",
                               ![t].llm = threads[t].provider]
          ELSE [threads EXCEPT ![t].pc = "done",
                               ![t].ret = Str(NoProviderMsg)]
    /\ UNCHANGED <<registry, index, call, api, chat, req, obs, set_ret,
                   gen_ret, ingest_ret, text_splitter>>

\* generate_response: return llm.generate(messages, **kwargs)
GenerateInvoke(t) ==
    /\ threads[t].op = "generate"
    /\ threads[t].pc = "invoke"
    /\ \E o \in InvokeOutcomes :
          threads' = [threads EXCEPT ![t].pc = "done",
                         ![t].ret = Str(LLM_generate(threads[t].llm,
                                           <<[role |-> "user",
                                              content |-> <<"a">>]>>, o))]
    /\ UNCHANGED <<registry, index, call, api, chat, req, obs, set_ret,
                   gen_ret, ingest_ret, text_splitter>>

\* set_active_provider: if provider in self.llms, else return False
SetActiveCheck(t) ==
    /\ threads[t].op = "set_active"
    /\ threads[t].pc = "check"
    /\ threads' = [threads EXCEPT ![t].pc = IF threads[t].arg \in llms
                                            THEN "assign" ELSE "done"]
    /\ UNCHANGED <<registry, index, call, api, chat, req, obs, set_ret,
                   gen_ret, ingest_ret, text_splitter>>

\* the threads' frames after a store of v into active_provider by thread t:
\* t's store is the latest one, and the generate_response calls in progress
\* have v among the values the active provider had during them
Stored(t, v, at) ==
    [u \in Threads |->
        IF u = t
        THEN [threads[u] EXCEPT !.pc = at,
                 !.order = 1 + Cardinality({w \in Threads :
                                               threads[w].order > 0}),
                 !.result = (at = "done")]
        ELSE IF threads[u].op = "generate" /\ threads[u].pc # "done"
             THEN [threads[u] EXCEPT !.seen = @ \cup {v}]
             ELSE threads[u]]

\* a variant of the assignment in two stores: None, then the name
SetActiveAssign_cleared(t) ==
    /\ threads[t].op = "set_active"
    /\ threads[t].pc = "assign"
    /\ IF threads[t].order = 0
       THEN /\ active_provider' = NONE
            /\ threads' = Stored(t, NONE, "assign")
       ELSE /\ active_provider' = threads[t].arg
            /\ threads' = Stored(t, threads[t].arg, "done")
    /\ UNCHANGED <<llms, index, call, api, chat, req, obs, set_ret,
                   gen_ret, ingest_ret, text_splitter>>

\* set_active_provider: self.active_provider = provider; return True
SetActiveAssign(t) ==
    /\ threads[t].op = "set_active"
    /\ threads[t].pc = "assign"
    /\ active_provider' = threads[t].arg
    /\ threads' = Stored(t, threads[t].arg, "done")
    /\ UNCHANGED <<llms, index, call, api, chat, req, obs, set_ret,
                   gen_ret, ingest_ret, text_splitter>>

SwapNext ==
    \E t \in Threads :
        \/ GetLlmRead(t)
        \/ GetLlmLookup(t)
        \/ GenerateInvoke(t)
        \/ SetActiveCheck(t)
        \/ SetActiveAssign(t)

SpecSwap == SwapInit /\ [][SwapNext]_vars

\* the set_active_provider calls that have stored, and the last of them
Writers == {t \in Threads : threads[t].order > 0}
LastWriter == CHOOSE t \in Writers : \A u \in Writers :
                                        threads[u].order <= threads[t].order

\* C21: with set_active_provider running at the same time as
\* generate_response calls, every generate_response call that resolves the
\* active provider resolves one whole registered provider, a value the
\* active provider had at some moment of the call (the one before a swap or
\* the one after it), never None while providers are registered, and calls
\* generate on the object registered under that very name; and when all
\* calls have returned, the active provider is the one stored by the last
\* set_active_provider call that stored.
C21_AtomicSwap ==
    /\ \A t \in Threads :
          (threads[t].op = "generate" /\ threads[t].pc # "get_llm"
              /\ Falsy(threads[t].arg))
             => /\ threads[t].provider \in threads[t].seen
                /\ llms # {} => threads[t].provider \in llms
                /\ threads[t].provider \in llms
                      => (threads[t].pc = "lookup"
                             \/ threads[t].llm = threads[t].provider)
    /\ ((\A t \in Threads : threads[t].pc = "done") /\ Writers # {})
          => active_provider = threads[LastWriter].arg

\* two set_active_provider calls have stored different providers, a
\* generate_response call that began before the first store has resolved
\* and called the provider the first one stored, and all three have returned
C21_Witness ==
    /\ \A t \in Threads : threads[t].pc = "done"
    /\ \E g \in Threads, s1 \in Threads, s2 \in Threads :
          /\ threads[g].op = "generate"
          /\ Falsy(threads[g].arg)
          /\ threads[s1].order = 1
          /\ threads[s2].order = 2
          /\ threads[s1].arg # threads[s2].arg
          /\ threads[g].llm = threads[s1].arg
          /\ threads[g].ret.kind = "str"
          /\ threads[g].seen = llms
          /\ active_provider = threads[s2].arg

----------------------------------------------------------------------------
(* Calls on the vector store from concurrent threads.  Each thread runs    *)
(* one call of process_documents or the search of one generate_response.   *)
(* The pipeline takes no lock; what it contributes is the number of        *)
(* add_documents calls a process_documents call makes.  That one           *)
(* add_documents call is one step for every other thread, and that a       *)
(* search is one, is the specification's section 5 (single writer, a batch *)
(* atomic with respect to readers).                                        *)

\* a variant of process_documents that calls add_documents once for every
\* document
upsert_calls_per_document(docs) ==
    [i \in 1..Len(docs) |-> chunk_docs(docs[i])]

\* the chunk lists process_documents hands to vector_store.add_documents,
\* one for every call it makes: all the chunks in one call, after the loop
upsert_calls(docs) == <<processed_chunks(docs)>>

Batch0 == [op |-> "none", pc |-> "done", docs |-> << >>, query |-> << >>,
           batches |-> << >>, stored |-> FALSE, before |-> << >>,
           after |-> << >>, order |-> 0, snapshot |-> << >>,
           context |-> << >>]

\* the documents of the concurrent uploads: two of them carry the id d2
BatchDocSeqs ==
    { << [id |-> "d1", has_text |-> TRUE, text |-> <<"a", "a">>],
         [id |-> "d2", has_text |-> TRUE, text |-> <<"b", " ", "a", "b", "b">>] >>,
      << [id |-> "d2", has_text |-> TRUE, text |-> <<"a", "b">>] >>,
      << [id |-> "d3", has_text |-> TRUE, text |-> << >>] >> }

StoreCalls ==
    {[Batch0 EXCEPT !.op = "ingest", !.pc = "chunk", !.docs = d] :
        d \in BatchDocSeqs}
    \cup {[Batch0 EXCEPT !.op = "answer", !.pc = "search", !.query = q] :
             q \in Queries \ {<< >>}}

BatchInit ==
    /\ \E cfg \in Configs, raises \in SUBSET Providers :
          /\ llms = initialize_llms(cfg, raises).llms
          /\ active_provider = initialize_llms(cfg, raises).active
    /\ index = << >>
    /\ call = NoCall
    /\ api = Api0
    /\ chat = Chat0
    /\ req = Req0
    /\ obs = Obs0
    /\ set_ret = Set0
    /\ gen_ret = NoRet
    /\ ingest_ret = Ingest0
    /\ text_splitter = [chunk_size |-> CHUNK_SIZE,
                        chunk_overlap |-> CHUNK_OVERLAP]
    /\ threads \in [Threads -> StoreCalls]

\* process_documents: the loop that builds processed_chunks
ChunkDocuments(t) ==
    /\ threads[t].op = "ingest"
    /\ threads[t].pc = "chunk"
    /\ threads' = [threads EXCEPT ![t].pc = "add",
                                  ![t].batches = upsert_calls(threads[t].docs)]
    /\ UNCHANGED <<registry, index, call, api, chat, req, obs, set_ret,
                   gen_ret, ingest_ret, text_splitter>>

\* process_documents: vector_store.add_documents(...) with the next chunk
\* list; after the last one the call returns
AddDocuments(t) ==
    /\ threads[t].op = "ingest"
    /\ threads[t].pc = "add"
    /\ IF threads[t].batches = << >>
       THEN /\ threads' = [threads EXCEPT ![t].pc = "done"]
            /\ UNCHANGED index
       ELSE LET added == add_documents(index, Head(threads[t].batches), TRUE)
                last == Tail(threads[t].batches) = << >>
            IN  /\ index' = added.index
                /\ threads' = [threads EXCEPT
                      ![t].batches = Tail(@),
                      ![t].stored = TRUE,
                      ![t].before = IF threads[t].stored THEN @ ELSE index,
                      ![t].after = added.index,
                      ![t].order = IF last
                                   THEN 1 + Cardinality({u \in Threads :
                                                threads[u].order > 0})
                                   ELSE 0,
                      ![t].pc = IF last THEN "done" ELSE "add"]
    /\ UNCHANGED <<registry, call, api, chat, req, obs, set_ret,
                   gen_ret, ingest_ret, text_splitter>>

\* generate_response: context = vector_store.search(query)
SearchStore(t) ==
    /\ threads[t].op = "answer"
    /\ threads[t].pc = "search"
    /\ threads' = [threads EXCEPT
          ![t].pc = "done",
          ![t].snapshot = index,
          ![t].context = after_search(search(index, threads[t].query)).context]
    /\ UNCHANGED <<registry, index, call, api, chat, req, obs, set_ret,
                   gen_ret, ingest_ret, text_splitter>>

BatchNext ==
    \E t \in Threads :
        \/ ChunkDocuments(t)
        \/ AddDocuments(t)
        \/ SearchStore(t)

SpecBatch == BatchInit /\ [][BatchNext]_vars

\* the process_documents calls that have stored their chunks
Stores == {t \in Threads : threads[t].order > 0}
\* the chunk ids of a call's batch
BatchIds(t) ==
    {processed_chunks(threads[t].docs)[i].id :
        i \in 1..Len(processed_chunks(threads[t].docs))}

====
